---------------------------- MODULE Spec2Model ----------------------------
(***************************************************************************)
(* A model of dataStructures/Digraph.hpp: the adjacency-list directed      *)
(* graph Digraph<VertexInfo, EdgeInfo>, its mutating operations, its       *)
(* look-ups, isStronglyConnected and findShortestPaths.                    *)
(*                                                                         *)
(* container is the std::map<int, DigraphVertex>: a function from the      *)
(* vertex numbers present to [vinfo, edges], edges being the std::list of  *)
(* DigraphEdge records in list order.  Every public member function is one *)
(* action; it records the call in last and the graph before the call in    *)
(* pre, so that the outcome of a call can be stated over a single state.   *)
(*                                                                         *)
(* dataStructures/AVLSet.hpp (AVLSet::add, contains, size and the four     *)
(* rotations) and the HashSet of dataStructures/SkipListSet.hpp (add with  *)
(* its resize, contains, size) are modelled beside it: avlSet and hashSet  *)
(* hold the fields of one object of each class.                            *)
(***************************************************************************)
EXTENDS Integers, Sequences, FiniteSets, Bags, TLC

\* ------------------------------------------------------------- bounds
\* Vertex numbers offered to the operations are 1..MaxVertex.
MaxVertex == 3
\* addEdge is offered only while the graph stores fewer edges than this.
MaxEdges == 3
\* Payloads (VertexInfo, EdgeInfo) are drawn from 0..MaxInfo.
MaxInfo == 1

VertexIds == 1..MaxVertex
Infos == 0..MaxInfo
\* The weight functions offered to findShortestPaths are e / 1 .. e / MaxDen.
MaxDen == 2
\* The graphs assigned from have the vertices 1..n, n <= MaxSourceVertex.
MaxSourceVertex == 2
\* SpecSP: the graphs have the vertices 1..SPVertices and at most SPMaxEdges edges.
SPVertices == 4
SPMaxEdges == 5
\* SpecDet: the graphs have the vertices 1..SPVertices and at most DetMaxEdges edges.
DetMaxEdges == 4
\* AVLSet::add is offered the elements 1..MaxElement.
MaxElement == 6
\* HashSet::add is offered the elements 0..MaxHashElement.
MaxHashElement == 11

\* std::numeric_limits<int>::max()
INT_MAX == 2147483647

VARIABLES
    container,   \* Digraph::container
    pre,         \* container as it was when the last call began
    last,        \* the last call: its name, arguments, outcome and return value
    pc,          \* "idle", "returned" (a call has just ended), "dijkstra"
                 \* (inside the loop of findShortestPaths) or "crashed"
    startVertex, \* findShortestPaths: its argument
    wden,        \* findShortestPaths: edgeWeightFunc(e) = e / wden
    vData,       \* findShortestPaths: std::map<int, DijkstraInfo>
    pqueue,      \* findShortestPaths: the priority queue, a bag of <<d, vertex>>
    avlSet,      \* an AVLSet: its fields root and shouldBalance
    hashSet,     \* a HashSet: its fields hashFunction, arr, sz and capacity
    everAdded,   \* the elements passed to add of the set so far
    earlier      \* an earlier findShortestPaths call kept by its caller: its
                 \* start vertex and the map it returned

vars == <<container, pre, last, pc, startVertex, wden, vData, pqueue,
          avlSet, hashSet, everAdded, earlier>>
spVars == <<startVertex, wden, vData, pqueue>>
setVars == <<avlSet, hashSet, everAdded, earlier>>

\* ------------------------------------------------------------ helpers
\* The empty std::map.
EmptyMap == [x \in {} |-> 0]

\* struct DigraphEdge
DigraphEdge(from, to, einfo) == [fromVertex |-> from, toVertex |-> to, einfo |-> einfo]

\* struct DigraphVertex
DigraphVertex(vinfo, edges) == [vinfo |-> vinfo, edges |-> edges]

\* std::map::insert: leaves the map alone when the key is already there.
MapInsert(m, k, val) ==
    IF k \in DOMAIN m THEN m
    ELSE [x \in DOMAIN m \cup {k} |-> IF x = k THEN val ELSE m[x]]

\* std::map::erase of a key.
MapErase(m, k) == [x \in DOMAIN m \ {k} |-> m[x]]

\* The record of a call.
Call(op, a, b, info, result, ret) ==
    [op |-> op, a |-> a, b |-> b, info |-> info, result |-> result, ret |-> ret]

\* The least of a non-empty finite set of integers.
Least(S) == CHOOSE x \in S : \A y \in S : x <= y

\* Sum of f over the finite set S.
RECURSIVE SumOver(_, _)
SumOver(f, S) ==
    IF S = {} THEN 0
    ELSE LET x == CHOOSE y \in S : TRUE IN f[x] + SumOver(f, S \ {x})

\* Position of the first list entry pointing to toVertex, 0 when there is none.
FirstTo(edges, toVertex) ==
    IF \E i \in 1..Len(edges) : edges[i].toVertex = toVertex
    THEN CHOOSE i \in 1..Len(edges) :
            /\ edges[i].toVertex = toVertex
            /\ \A j \in 1..(i - 1) : edges[j].toVertex # toVertex
    ELSE 0

\* std::list::erase of the entry at position i.
ListErase(edges, i) == SubSeq(edges, 1, i - 1) \o SubSeq(edges, i + 1, Len(edges))

\* The length of the longest outgoing list.
MaxEdgesIn(c) ==
    IF DOMAIN c = {} THEN 0
    ELSE CHOOSE n \in {Len(c[v].edges) : v \in DOMAIN c} :
            \A v \in DOMAIN c : Len(c[v].edges) <= n

\* ------------------------------------------------------------ queries
\* Digraph::vertexCount
vertexCount(c) == Cardinality(DOMAIN c)

\* Digraph::edgeCount()
edgeCount(c) == SumOver([v \in DOMAIN c |-> Len(c[v].edges)], DOMAIN c)

\* std::map iterates in ascending key order.
RECURSIVE SortedKeys(_)
SortedKeys(S) ==
    IF S = {} THEN <<>>
    ELSE LET m == CHOOSE x \in S : \A y \in S : x <= y
         IN <<m>> \o SortedKeys(S \ {m})

\* Digraph::vertices
vertices(c) == SortedKeys(DOMAIN c)

\* The pairs of one outgoing list with the two vertex numbers exchanged.
PairsOfSwapped(edges) ==
    [i \in 1..Len(edges) |-> <<edges[i].toVertex, edges[i].fromVertex>>]

\* The <<from, to>> pairs of one outgoing list, as edges(int) pushes them.
PairsOf(edges) == [i \in 1..Len(edges) |-> <<edges[i].fromVertex, edges[i].toVertex>>]

\* Digraph::edges(), by its local name allEdges
RECURSIVE edgesFrom(_, _)
edgesFrom(c, keys) ==
    IF keys = <<>> THEN <<>>
    ELSE PairsOf(c[Head(keys)].edges) \o edgesFrom(c, Tail(keys))

allEdges(c) == edgesFrom(c, vertices(c))

\* Digraph::edgeInfo: NotFound for a missing fromVertex; else the payload of
\* the first list entry pointing to toVertex, NotFound when the loop ends
\* without one.
edgeInfo(c, fromVertex, toVertex) ==
    IF fromVertex \notin DOMAIN c THEN [result |-> "NotFound", ret |-> 0]
    ELSE LET i == FirstTo(c[fromVertex].edges, toVertex) IN
         IF i = 0 THEN [result |-> "NotFound", ret |-> 0]
         ELSE [result |-> "ok", ret |-> c[fromVertex].edges[i].einfo]

\* ---------------------------------------------------------- mutations
\* Digraph::addVertex: container.insert, which does nothing for a key that
\* is already present; the function has no throw statement.
addVertex(c, vertex, vinfo) ==
    [container |-> MapInsert(c, vertex, DigraphVertex(vinfo, <<>>)), result |-> "ok"]

\* addEdge with the push_back made before toVertex is looked up.
addEdgePushFirst(c, fromVertex, toVertex, einfo) ==
    IF fromVertex \notin DOMAIN c THEN [container |-> c, result |-> "NotFound"]
    ELSE LET pushed == [c EXCEPT ![fromVertex].edges =
                            Append(@, DigraphEdge(fromVertex, toVertex, einfo))]
         IN IF toVertex \notin DOMAIN c
            THEN [container |-> pushed, result |-> "NotFound"]
            ELSE [container |-> pushed, result |-> "ok"]

\* Digraph::addEdge: both end points are looked up, then push_back.
addEdge(c, fromVertex, toVertex, einfo) ==
    IF fromVertex \notin DOMAIN c THEN [container |-> c, result |-> "NotFound"]
    ELSE IF toVertex \notin DOMAIN c THEN [container |-> c, result |-> "NotFound"]
    ELSE [container |->
            [c EXCEPT ![fromVertex].edges =
                Append(@, DigraphEdge(fromVertex, toVertex, einfo))],
          result |-> "ok"]

\* removeEdge without the throw that follows its loop.
removeEdgeSilent(c, fromVertex, toVertex) ==
    IF fromVertex \notin DOMAIN c THEN [container |-> c, result |-> "NotFound"]
    ELSE LET i == FirstTo(c[fromVertex].edges, toVertex) IN
         IF i = 0 THEN [container |-> c, result |-> "ok"]
         ELSE [container |-> [c EXCEPT ![fromVertex].edges = ListErase(@, i)],
               result |-> "ok"]

\* Digraph::removeEdge: erases the first entry pointing to toVertex and returns.
removeEdge(c, fromVertex, toVertex) ==
    IF fromVertex \notin DOMAIN c THEN [container |-> c, result |-> "NotFound"]
    ELSE LET i == FirstTo(c[fromVertex].edges, toVertex) IN
         IF i = 0 THEN [container |-> c, result |-> "NotFound"]
         ELSE [container |-> [c EXCEPT ![fromVertex].edges = ListErase(@, i)],
               result |-> "ok"]

\* The inner loop of removeVertex leaving the list at its first erase.
ScanListFirstOnly(edges, vertex) ==
    LET i == FirstTo(edges, vertex) IN
    [edges |-> IF i = 0 THEN edges ELSE ListErase(edges, i), dangling |-> FALSE]

\* The inner loop of Digraph::removeVertex over one outgoing list:
\*     for (it_list = temp.begin(); it_list != temp.end(); it_list++)
\*         if (it_list->toVertex == vertex) temp.erase(it_list);
\* erase invalidates it_list, and the it_list++ that follows reads the erased
\* node: undefined behaviour.  dangling says whether that read happens.  When
\* the erased node still holds its old link the loop goes on with the
\* successor, and the list ends as below.
ScanList(edges, vertex) ==
    [edges |-> SelectSeq(edges, LAMBDA e : e.toVertex # vertex),
     dangling |-> \E i \in 1..Len(edges) : edges[i].toVertex = vertex]

\* Digraph::removeVertex.  The outcomes of the undefined read are the two a
\* build produces: the stale link is read ("ok", every entry pointing to
\* vertex erased) or the process dies on it ("crash").
removeVertexOutcomes(c, vertex) ==
    IF vertex \notin DOMAIN c THEN {[container |-> c, result |-> "NotFound"]}
    ELSE LET erased == MapErase(c, vertex)
             scanned == [x \in DOMAIN erased |->
                            [erased[x] EXCEPT !.edges = ScanList(@, vertex).edges]]
             ub == \E x \in DOMAIN erased : ScanList(erased[x].edges, vertex).dangling
         IN IF ub THEN {[container |-> scanned, result |-> "ok"],
                        [container |-> EmptyMap, result |-> "crash"]}
            ELSE {[container |-> scanned, result |-> "ok"]}

\* ------------------------------------------------------ copy and move
\* The inner loop of the copy constructor and of operator=(const Digraph&):
\* addEdge(vertexIndex, toVertex, einfo) for every entry of one list of d,
\* in list order.  An addEdge that throws ends the copy where it stands.
RECURSIVE copyEdges(_, _, _)
copyEdges(c, vertexIndex, list) ==
    IF list = <<>> THEN [container |-> c, result |-> "ok"]
    ELSE LET out == addEdge(c, vertexIndex, Head(list).toVertex, Head(list).einfo)
         IN IF out.result # "ok" THEN out
            ELSE copyEdges(out.container, vertexIndex, Tail(list))

\* The outer loop: the vertices of d in ascending order, each added and
\* followed at once by its outgoing edges.
RECURSIVE copyVertices(_, _, _)
copyVertices(c, d, keys) ==
    IF keys = <<>> THEN [container |-> c, result |-> "ok"]
    ELSE LET vertexIndex == Head(keys)
             added == addVertex(c, vertexIndex, d[vertexIndex].vinfo).container
             out == copyEdges(added, vertexIndex, d[vertexIndex].edges)
         IN IF out.result # "ok" THEN out
            ELSE copyVertices(out.container, d, Tail(keys))

\* Digraph::Digraph(const Digraph& d): the loops, on the empty container of
\* the object under construction.
copyConstruct(d) == copyVertices(EmptyMap, d, vertices(d))

\* Digraph::operator=(const Digraph& d): container.clear(), then the loops.
\* self says that d is *this, whose container the clear has just emptied.
copyAssign(d, self) ==
    IF self THEN copyVertices(EmptyMap, EmptyMap, <<>>)
    ELSE copyVertices(EmptyMap, d, vertices(d))

\* Digraph::Digraph(Digraph&& d) and Digraph::operator=(Digraph&& d):
\* container = d.container, d being an lvalue there: the map is copied.
moveFrom(d) == [container |-> d, source |-> d, result |-> "ok"]

\* The graphs offered as the other operand of an assignment: vertices 1..n
\* for n <= MaxSourceVertex, every outgoing list empty or holding one edge.
SourceLists(n, v) ==
    {<<>>} \cup {<<DigraphEdge(v, w, 0)>> : w \in 1..n}

SourceGraphsOf(n) ==
    {[v \in 1..n |-> DigraphVertex(0, l[v])] :
        l \in {f \in [1..n -> UNION {SourceLists(n, v) : v \in 1..n}] :
                  \A v \in 1..n : f[v] \in SourceLists(n, v)}}

SourceGraphs == UNION {SourceGraphsOf(n) : n \in 0..MaxSourceVertex}

\* ------------------------------------------------- strong connectivity
\* Digraph::DFTr.  visitRecords[vertexIndex] = true, then every entry of the
\* outgoing list in order: a target not yet visited is explored recursively
\* and what it marks is seen by the entries after it.  visitRecords is the
\* set of keys holding true.
RECURSIVE DFTr(_, _, _, _)
DFTr(c, vertexIndex, edges, visitRecords) ==
    LET marked == visitRecords \cup {vertexIndex} IN
    IF edges = <<>> THEN marked
    ELSE LET w == Head(edges).toVertex
             after == IF w \in marked THEN marked
                      ELSE DFTr(c, w, c[w].edges, marked)
         IN DFTr(c, vertexIndex, Tail(edges), after)

\* Digraph::DFTr with the calls it makes written down: marked is
\* visitRecords, calls the vertexIndex of every call in the order made.
\* DFTrCall is a call of DFTr, DFTrLoop the rest of its for loop.
RECURSIVE DFTrCall(_, _, _)
RECURSIVE DFTrLoop(_, _, _, _)
DFTrCall(c, vertexIndex, log) ==
    DFTrLoop(c, vertexIndex, c[vertexIndex].edges,
             [marked |-> log.marked \cup {vertexIndex},
              calls |-> Append(log.calls, vertexIndex)])

DFTrLoop(c, vertexIndex, edges, log) ==
    IF edges = <<>> THEN log
    ELSE LET w == Head(edges).toVertex
             after == IF w \in log.marked THEN log ELSE DFTrCall(c, w, log)
         IN DFTrLoop(c, vertexIndex, Tail(edges), after)

\* Digraph::countConnectVertices
countConnectVertices(visitRecords) == Cardinality(visitRecords)

\* isStronglyConnected with the traversal made from the first vertex alone.
isStronglyConnectedFirstOnly(c) ==
    LET sz == vertexCount(c) IN
    \/ DOMAIN c = {}
    \/ LET v == Least(DOMAIN c) IN
       countConnectVertices(DFTr(c, v, c[v].edges, {})) = sz

\* Digraph::isStronglyConnected: false at the first vertex whose traversal
\* marks fewer than vertexCount() vertices, true when there is none.
isStronglyConnected(c) ==
    LET sz == vertexCount(c) IN
    \A v \in DOMAIN c : countConnectVertices(DFTr(c, v, c[v].edges, {})) = sz

\* ------------------------------------------------------ shortest paths
\* struct DijkstraInfo
DijkstraInfo(kFlag, d, p) == [kFlag |-> kFlag, d |-> d, p |-> p]

\* class Compare: the priority queue's "less than", on the distance alone.
Compare(lhs, rhs) == lhs[1] < rhs[1]

\* What pqueue.top() may be: std::priority_queue puts on top an element that
\* Compare orders before no other; which one of several is unspecified.
Tops(pq) == {t \in BagToSet(pq) : \A x \in BagToSet(pq) : ~Compare(t, x)}

\* The initialisation of vData with startVertex as every predecessor.
InitVDataPStart(c, start) ==
    [v \in DOMAIN c |->
        IF v = start THEN DijkstraInfo(FALSE, 0, start)
        ELSE DijkstraInfo(FALSE, INT_MAX, start)]

\* The initialisation of vData in findShortestPaths.
InitVData(c, start) ==
    [v \in DOMAIN c |->
        IF v = start THEN DijkstraInfo(FALSE, 0, start)
        ELSE DijkstraInfo(FALSE, INT_MAX, v)]

\* The relaxation loop of findShortestPaths over edges_list, in list order.
\* edgeWeightFunc(einfo) is einfo / den, a double; the comparison is made in
\* double and the sum is converted to int (truncated) when stored in wD.d.
\* vData[toVertex] default-constructs an entry for a key it does not hold.
\* IntGreater(i, num, den) is the comparison i > num / den of an int with a
\* double: for an integer i it is i > floor(num / den).
IntGreater(i, num, den) == i > num \div den

RECURSIVE Relax(_, _, _, _, _)
Relax(vd, pq, vIndex, edges_list, den) ==
    IF edges_list = <<>> THEN [vData |-> vd, pqueue |-> pq]
    ELSE LET e == Head(edges_list)
             w == e.toVertex
             vd1 == MapInsert(vd, w, DijkstraInfo(FALSE, 0, 0))
             sum == den * vd1[vIndex].d + e.einfo
             newd == sum \div den
         IN IF IntGreater(vd1[w].d, sum, den)
            THEN Relax([vd1 EXCEPT ![w].d = newd, ![w].p = vIndex],
                       pq (+) SetToBag({<<newd, w>>}),
                       vIndex, Tail(edges_list), den)
            ELSE Relax(vd1, pq, vIndex, Tail(edges_list), den)

\* The map findShortestPaths returns: every key of vData with its p.
Answer(vd) == [v \in DOMAIN vd |-> vd[v].p]

\* -------------------------------------------------------------- AVLSet
\* A Node* is nullptr or the node it points to; no node is shared, so a
\* pointer is modelled by the subtree it leads to.
nullptr == [null |-> TRUE]

\* struct Node of AVLSet
Node(element, left, right, height) ==
    [element |-> element, left |-> left, right |-> right, height |-> height]

\* std::max
Max(a, b) == IF a >= b THEN a ELSE b

\* AVLSet::treeHeight
treeHeight(tree) == IF tree = nullptr THEN -1 ELSE tree.height

\* tree->height = 1 + std::max(treeHeight(tree->left), treeHeight(tree->right))
WithHeight(tree) ==
    [tree EXCEPT !.height = 1 + Max(treeHeight(tree.left), treeHeight(tree.right))]

\* LL with B->left = nullptr in place of B->left = A->right.
LLDropsRight(B) ==
    LET A == B.left
        B1 == WithHeight([B EXCEPT !.left = nullptr])
    IN WithHeight([A EXCEPT !.right = B1])

\* AVLSet::LL
LL(B) ==
    LET A == B.left
        B1 == WithHeight([B EXCEPT !.left = A.right])
    IN WithHeight([A EXCEPT !.right = B1])

\* AVLSet::RR
RR(A) ==
    LET B == A.right
        A1 == WithHeight([A EXCEPT !.right = B.left])
    IN WithHeight([B EXCEPT !.left = A1])

\* AVLSet::LR
LR(C) ==
    LET A == C.left
        B == A.right
        C1 == WithHeight([C EXCEPT !.left = B.right])
        A1 == WithHeight([A EXCEPT !.right = B.left])
    IN WithHeight([B EXCEPT !.right = C1, !.left = A1])

\* RL with the single rotation RR made in its place.
RLSingle(A) == RR(A)

\* AVLSet::RL
RL(A) ==
    LET C == A.right
        B == C.left
        A1 == WithHeight([A EXCEPT !.right = B.left])
        C1 == WithHeight([C EXCEPT !.left = B.right])
    IN WithHeight([B EXCEPT !.right = C1, !.left = A1])

\* AVLSet::maintainAVL
maintainAVL(tree, shouldBalance) ==
    IF ~shouldBalance THEN tree
    ELSE LET leftHeight == IF tree.left # nullptr THEN tree.left.height + 1 ELSE 0
             rightHeight == IF tree.right # nullptr THEN tree.right.height + 1 ELSE 0
             difference == leftHeight - rightHeight
         IN IF difference > 1
            THEN LET leftTree == tree.left IN
                 IF treeHeight(leftTree.left) > treeHeight(leftTree.right)
                 THEN LL(tree) ELSE LR(tree)
            ELSE IF difference < -1
            THEN LET rightTree == tree.right IN
                 IF treeHeight(rightTree.left) > treeHeight(rightTree.right)
                 THEN RL(tree) ELSE RR(tree)
            ELSE tree

\* AVLSet::insertTree: the element already there returns at once; otherwise
\* the height is updated and maintainAVL runs at every node on the way back.
RECURSIVE insertTree(_, _, _)
insertTree(element, tree, shouldBalance) ==
    IF tree = nullptr
    THEN maintainAVL(WithHeight(Node(element, nullptr, nullptr, 0)), shouldBalance)
    ELSE IF tree.element = element THEN tree
    ELSE IF tree.element > element
    THEN maintainAVL(WithHeight([tree EXCEPT !.left =
                        insertTree(element, tree.left, shouldBalance)]), shouldBalance)
    ELSE maintainAVL(WithHeight([tree EXCEPT !.right =
                        insertTree(element, tree.right, shouldBalance)]), shouldBalance)

\* AVLSet::lookup
RECURSIVE lookup(_, _)
lookup(element, tree) ==
    IF tree = nullptr THEN FALSE
    ELSE IF tree.element = element THEN TRUE
    ELSE IF element > tree.element THEN lookup(element, tree.right)
    ELSE lookup(element, tree.left)

\* AVLSet::treeSize
RECURSIVE treeSize(_)
treeSize(tree) ==
    IF tree = nullptr THEN 0
    ELSE treeSize(tree.left) + treeSize(tree.right) + 1

\* AVLSet::AVLSet(bool shouldBalance)
AVLSetNew(shouldBalance) == [root |-> nullptr, shouldBalance |-> shouldBalance]

\* ------------------------------------------------------------- HashSet
\* HashSet::DEFAULT_CAPACITY
DEFAULT_CAPACITY == 10

\* The hash functions given to the constructor: element -> h * element.
HashOf(h, element) == h * element

\* HashSet::HashSet(HashFunction): every bucket nullptr.  A bucket is the
\* sequence of the elements of its chain, the head node first.
HashSetNew(h) ==
    [hashFunction |-> h,
     arr |-> [i \in 0..(DEFAULT_CAPACITY - 1) |-> <<>>],
     sz |-> 0,
     capacity |-> DEFAULT_CAPACITY]

\* HashSet::isElementAtIndex
isElementAtIndex(hs, element, index) ==
    IF index < 0 \/ index >= hs.capacity THEN FALSE
    ELSE \E k \in 1..Len(hs.arr[index]) : hs.arr[index][k] = element

\* A float with a value in [1/2, 1) is m / 2^24 for an integer m.
TwoTo24 == 16777216

\* The double 0.8 lies between the floats 13421772 / 2^24 and 13421773 / 2^24.
Point8 == 13421773

\* (float) sz / (float) capacity for a quotient in [1/2, 1): the division is
\* rounded to the nearest float m / 2^24; this is m.
FloatQuotient(sz, capacity) == (2 * sz * TwoTo24 + capacity) \div (2 * capacity)

\* The test (float) sz / (float) capacity >= 0.8 of HashSet::add, the float
\* quotient being converted to double for the comparison.
RatioAtLeastPoint8(sz, capacity) ==
    IF sz >= capacity THEN TRUE
    ELSE IF 2 * sz < capacity THEN FALSE
    ELSE FloatQuotient(sz, capacity) >= Point8

\* The inner loop of the resize: the nodes of one old chain, head first,
\* each put at the head of its new bucket.
RECURSIVE MoveChain(_, _, _, _)
MoveChain(new_arr, chain, h, capacity) ==
    IF chain = <<>> THEN new_arr
    ELSE LET newPosition == HashOf(h, Head(chain)) % capacity
         IN MoveChain([new_arr EXCEPT ![newPosition] = <<Head(chain)>> \o @],
                      Tail(chain), h, capacity)

\* The outer loop of the resize: for (i = 0; i < capacity / 2; i++).
RECURSIVE MoveBuckets(_, _, _, _, _)
MoveBuckets(new_arr, arr, i, h, capacity) ==
    IF i >= capacity \div 2 THEN new_arr
    ELSE MoveBuckets(MoveChain(new_arr, arr[i], h, capacity), arr, i + 1, h, capacity)

\* The resize of HashSet::add: capacity doubled, every node moved.
Resized(hs) ==
    LET capacity == hs.capacity * 2
        new_arr == [i \in 0..(capacity - 1) |-> <<>>]
    IN [hs EXCEPT !.capacity = capacity,
                  !.arr = MoveBuckets(new_arr, hs.arr, 0, hs.hashFunction, capacity)]

\* HashSet::add
HashSetAdd(hs, element) ==
    LET position == HashOf(hs.hashFunction, element) % hs.capacity IN
    IF isElementAtIndex(hs, element, position) THEN hs
    ELSE LET inserted == [hs EXCEPT !.arr[position] = <<element>> \o @, !.sz = @ + 1]
         IN IF RatioAtLeastPoint8(inserted.sz, inserted.capacity)
            THEN Resized(inserted) ELSE inserted

\* HashSet::contains
HashSetContains(hs, element) ==
    isElementAtIndex(hs, element, HashOf(hs.hashFunction, element) % hs.capacity)

\* -------------------------------------------------------------- state
\* The caller keeps no earlier call.
NoEarlier == [kept |-> FALSE, start |-> 0, ret |-> EmptyMap]

NoCall == Call("none", 0, 0, 0, "ok", 0)

Init ==
    /\ container = EmptyMap
    /\ pre = EmptyMap
    /\ last = NoCall
    /\ pc = "idle"
    /\ startVertex = 0
    /\ wden = 1
    /\ vData = EmptyMap
    /\ pqueue = EmptyBag
    /\ avlSet = AVLSetNew(TRUE)
    /\ hashSet = HashSetNew(1)
    /\ everAdded = {}
    /\ earlier = NoEarlier

\* What every mutating call does with its outcome.
Finish(op, a, b, info, out) ==
    /\ pre' = container
    /\ container' = out.container
    /\ last' = Call(op, a, b, info, out.result, 0)
    /\ pc' = IF out.result = "crash" THEN "crashed" ELSE "returned"
    /\ UNCHANGED <<spVars, setVars>>

\* What every look-up does: the graph is left alone (the member is const).
Answered(op, a, b, result, ret) ==
    /\ pre' = container
    /\ last' = Call(op, a, b, 0, result, ret)
    /\ pc' = "returned"
    /\ UNCHANGED <<container, spVars, setVars>>

AddVertex ==
    /\ pc = "idle"
    /\ \E vertex \in VertexIds, vinfo \in Infos :
          Finish("addVertex", vertex, 0, vinfo, addVertex(container, vertex, vinfo))

AddEdge ==
    /\ pc = "idle"
    /\ edgeCount(container) < MaxEdges
    /\ \E fromVertex \in VertexIds, toVertex \in VertexIds, einfo \in Infos :
          Finish("addEdge", fromVertex, toVertex, einfo,
                 addEdge(container, fromVertex, toVertex, einfo))

RemoveVertex ==
    /\ pc = "idle"
    /\ \E vertex \in VertexIds :
          \E out \in removeVertexOutcomes(container, vertex) :
              Finish("removeVertex", vertex, 0, 0, out)

RemoveEdge ==
    /\ pc = "idle"
    /\ \E fromVertex \in VertexIds, toVertex \in VertexIds :
          Finish("removeEdge", fromVertex, toVertex, 0,
                 removeEdge(container, fromVertex, toVertex))

\* Digraph::Digraph(const Digraph&) with this graph as d: the new object is
\* the value returned, and there is none when the constructor throws.
CopyConstruct ==
    /\ pc = "idle"
    /\ LET out == copyConstruct(container) IN
       Answered("copyConstruct", 0, 0, out.result,
                IF out.result = "ok" THEN out.container ELSE EmptyMap)

\* Digraph::Digraph(Digraph&&) with this graph as d.
MoveConstruct ==
    /\ pc = "idle"
    /\ Answered("moveConstruct", 0, 0, "ok", moveFrom(container).container)

\* Digraph::operator=(const Digraph&) on this graph, from itself or from d.
CopyAssign ==
    /\ pc = "idle"
    /\ \/ Finish("copyAssignSelf", 0, 0, container, copyAssign(container, TRUE))
       \/ \E d \in SourceGraphs :
             Finish("copyAssign", 0, 0, d, copyAssign(d, FALSE))

\* Digraph::operator=(Digraph&&) on this graph, from d.
MoveAssign ==
    /\ pc = "idle"
    /\ \E d \in SourceGraphs : Finish("moveAssign", 0, 0, d, moveFrom(d))

\* Digraph::vertices
Vertices ==
    /\ pc = "idle"
    /\ Answered("vertices", 0, 0, "ok", vertices(container))

\* Digraph::edges()
Edges ==
    /\ pc = "idle"
    /\ Answered("edges", 0, 0, "ok", allEdges(container))

\* Digraph::edges(int)
EdgesOf ==
    /\ pc = "idle"
    /\ \E vertex \in VertexIds :
          IF vertex \notin DOMAIN container
          THEN Answered("edgesOf", vertex, 0, "NotFound", 0)
          ELSE Answered("edgesOf", vertex, 0, "ok", PairsOf(container[vertex].edges))

\* Digraph::vertexInfo
VertexInfo ==
    /\ pc = "idle"
    /\ \E vertex \in VertexIds :
          IF vertex \notin DOMAIN container
          THEN Answered("vertexInfo", vertex, 0, "NotFound", 0)
          ELSE Answered("vertexInfo", vertex, 0, "ok", container[vertex].vinfo)

\* Digraph::edgeInfo: the payload of the first entry pointing to toVertex.
EdgeInfo ==
    /\ pc = "idle"
    /\ \E fromVertex \in VertexIds, toVertex \in VertexIds :
          LET out == edgeInfo(container, fromVertex, toVertex) IN
          Answered("edgeInfo", fromVertex, toVertex, out.result, out.ret)

\* Digraph::vertexCount
VertexCount ==
    /\ pc = "idle"
    /\ Answered("vertexCount", 0, 0, "ok", vertexCount(container))

\* Digraph::edgeCount()
EdgeCount ==
    /\ pc = "idle"
    /\ Answered("edgeCount", 0, 0, "ok", edgeCount(container))

\* Digraph::edgeCount(int)
EdgeCountOf ==
    /\ pc = "idle"
    /\ \E vertex \in VertexIds :
          IF vertex \notin DOMAIN container
          THEN Answered("edgeCountOf", vertex, 0, "NotFound", 0)
          ELSE Answered("edgeCountOf", vertex, 0, "ok", Len(container[vertex].edges))

\* Digraph::isStronglyConnected
IsStronglyConnected ==
    /\ pc = "idle"
    /\ Answered("isStronglyConnected", 0, 0, "ok", isStronglyConnected(container))

\* Digraph::findShortestPaths up to its loop: the look-up of startVertex, the
\* initialisation of vData and the first push.  dens are the weight functions
\* the caller may pass.
SPStartWith(dens) ==
    /\ pc = "idle"
    /\ \E start \in VertexIds, den \in dens :
          /\ pre' = container
          /\ UNCHANGED <<container, setVars>>
          /\ startVertex' = start
          /\ wden' = den
          /\ IF start \notin DOMAIN container
             THEN /\ last' = Call("findShortestPaths", start, 0, den, "NotFound", 0)
                  /\ pc' = "returned"
                  /\ UNCHANGED <<vData, pqueue>>
             ELSE /\ last' = Call("findShortestPaths", start, 0, den, "running", 0)
                  /\ pc' = "dijkstra"
                  /\ vData' = InitVData(container, start)
                  /\ pqueue' = SetToBag({<<0, start>>})

SPStart == SPStartWith(1..MaxDen)

\* The loop of findShortestPaths without pqueue.pop().
SPLoopNoPop ==
    /\ pc = "dijkstra"
    /\ pqueue # EmptyBag
    /\ \E t \in Tops(pqueue) :
          LET vIndex == t[2]
          IN IF vData[vIndex].kFlag = FALSE
             THEN LET r == Relax([vData EXCEPT ![vIndex].kFlag = TRUE], pqueue,
                                 vIndex, container[vIndex].edges, wden)
                  IN /\ vData' = r.vData
                     /\ pqueue' = r.pqueue
             ELSE UNCHANGED <<vData, pqueue>>
    /\ UNCHANGED <<container, pre, last, pc, startVertex, wden, setVars>>

\* One iteration of while (pqueue.size() != 0): top, pop, and for a vertex
\* not yet known, kFlag = true and the relaxation of its outgoing list.
SPLoop ==
    /\ pc = "dijkstra"
    /\ pqueue # EmptyBag
    /\ \E t \in Tops(pqueue) :
          LET vIndex == t[2]
              popped == pqueue (-) SetToBag({t})
          IN IF vData[vIndex].kFlag = FALSE
             THEN LET r == Relax([vData EXCEPT ![vIndex].kFlag = TRUE], popped,
                                 vIndex, container[vIndex].edges, wden)
                  IN /\ vData' = r.vData
                     /\ pqueue' = r.pqueue
             ELSE /\ pqueue' = popped
                  /\ UNCHANGED vData
    /\ UNCHANGED <<container, pre, last, pc, startVertex, wden, setVars>>

\* The end of findShortestPaths: the queue is empty, ans is built and returned.
SPReturn ==
    /\ pc = "dijkstra"
    /\ pqueue = EmptyBag
    /\ last' = [last EXCEPT !.result = "ok", !.ret = Answer(vData)]
    /\ pc' = "returned"
    /\ UNCHANGED <<container, pre, startVertex, wden, vData, pqueue, setVars>>

\* The caller goes on after a call: the record of the call is dropped.
Return ==
    /\ pc = "returned"
    /\ pc' = "idle"
    /\ pre' = EmptyMap
    /\ last' = NoCall
    /\ startVertex' = 0
    /\ wden' = 1
    /\ vData' = EmptyMap
    /\ pqueue' = EmptyBag
    /\ UNCHANGED <<container, setVars>>

Next ==
    \/ AddVertex
    \/ AddEdge
    \/ RemoveVertex
    \/ RemoveEdge
    \/ CopyConstruct
    \/ MoveConstruct
    \/ CopyAssign
    \/ MoveAssign
    \/ Vertices
    \/ Edges
    \/ EdgesOf
    \/ VertexInfo
    \/ EdgeInfo
    \/ VertexCount
    \/ EdgeCount
    \/ EdgeCountOf
    \/ IsStronglyConnected
    \/ SPStart
    \/ SPLoop
    \/ SPReturn
    \/ Return

Spec == Init /\ [][Next]_vars

\* --------------------------------------- shortest paths on larger graphs
\* findShortestPaths with integer weights on every graph that addVertex and
\* addEdge build on the vertices 1..SPVertices with at most SPMaxEdges edges
\* between distinct vertices, no pair joined twice, every outgoing list in
\* ascending order of its targets.
SPPairs == {p \in (1..SPVertices) \X (1..SPVertices) : p[1] # p[2]}

RECURSIVE SPList(_, _, _)
SPList(f, v, targets) ==
    IF targets = <<>> THEN <<>>
    ELSE <<DigraphEdge(v, Head(targets), f[<<v, Head(targets)>>])>>
            \o SPList(f, v, Tail(targets))

SPGraph(f) ==
    [v \in 1..SPVertices |->
        DigraphVertex(0, SPList(f, v,
            SortedKeys({w \in 1..SPVertices : w # v /\ f[<<v, w>>] >= 0})))]

SPGraphs(maxEdges) ==
    {SPGraph(f) : f \in {h \in [SPPairs -> -1..MaxInfo] :
                            Cardinality({p \in SPPairs : h[p] >= 0}) <= maxEdges}}

InitSP ==
    /\ container \in SPGraphs(SPMaxEdges)
    /\ pre = EmptyMap
    /\ last = NoCall
    /\ pc = "idle"
    /\ startVertex = 0
    /\ wden = 1
    /\ vData = EmptyMap
    /\ pqueue = EmptyBag
    /\ avlSet = AVLSetNew(TRUE)
    /\ hashSet = HashSetNew(1)
    /\ everAdded = {}
    /\ earlier = NoEarlier

SPStartInt == SPStartWith({1})

NextSP ==
    \/ SPStartInt
    \/ SPLoop
    \/ SPReturn

SpecSP == InitSP /\ [][NextSP]_vars

\* ------------------------------------------------------- the two sets
Elements == 1..MaxElement
HashElements == 0..MaxHashElement

\* The hash functions offered to the constructor of the HashSet.
HashFunctions == {1, 3}

\* What a member function of a set does with its answer: the fields the
\* call found are kept in pre.
SetAnswered(op, element, before, ret) ==
    /\ pre' = before
    /\ last' = Call(op, element, 0, 0, "ok", ret)
    /\ pc' = "returned"
    /\ UNCHANGED <<container, spVars>>

\* AVLSet::add
AVLAdd ==
    /\ pc = "idle"
    /\ \E element \in Elements :
          /\ avlSet' = [avlSet EXCEPT !.root =
                            insertTree(element, avlSet.root, avlSet.shouldBalance)]
          /\ everAdded' = everAdded \cup {element}
          /\ SetAnswered("AVLSet::add", element, avlSet, 0)
    /\ UNCHANGED <<hashSet, earlier>>

\* AVLSet::contains
AVLContains ==
    /\ pc = "idle"
    /\ \E element \in Elements :
          SetAnswered("AVLSet::contains", element, avlSet, lookup(element, avlSet.root))
    /\ UNCHANGED setVars

\* AVLSet::size
AVLSize ==
    /\ pc = "idle"
    /\ SetAnswered("AVLSet::size", 0, avlSet, treeSize(avlSet.root))
    /\ UNCHANGED setVars

InitAVL ==
    /\ container = EmptyMap
    /\ pre = EmptyMap
    /\ last = NoCall
    /\ pc = "idle"
    /\ startVertex = 0
    /\ wden = 1
    /\ vData = EmptyMap
    /\ pqueue = EmptyBag
    /\ avlSet \in {AVLSetNew(b) : b \in BOOLEAN}
    /\ hashSet = HashSetNew(1)
    /\ everAdded = {}
    /\ earlier = NoEarlier

NextAVL ==
    \/ AVLAdd
    \/ AVLContains
    \/ AVLSize
    \/ Return

SpecAVL == InitAVL /\ [][NextAVL]_vars

\* HashSet::add
HashAdd ==
    /\ pc = "idle"
    /\ \E element \in HashElements :
          /\ hashSet' = HashSetAdd(hashSet, element)
          /\ everAdded' = everAdded \cup {element}
          /\ SetAnswered("HashSet::add", element, hashSet, 0)
    /\ UNCHANGED <<avlSet, earlier>>

\* HashSet::contains
HashContains ==
    /\ pc = "idle"
    /\ \E element \in HashElements :
          SetAnswered("HashSet::contains", element, hashSet,
                      HashSetContains(hashSet, element))
    /\ UNCHANGED setVars

\* HashSet::size
HashSize ==
    /\ pc = "idle"
    /\ SetAnswered("HashSet::size", 0, hashSet, hashSet.sz)
    /\ UNCHANGED setVars

InitHash ==
    /\ container = EmptyMap
    /\ pre = EmptyMap
    /\ last = NoCall
    /\ pc = "idle"
    /\ startVertex = 0
    /\ wden = 1
    /\ vData = EmptyMap
    /\ pqueue = EmptyBag
    /\ avlSet = AVLSetNew(TRUE)
    /\ hashSet \in {HashSetNew(h) : h \in HashFunctions}
    /\ everAdded = {}
    /\ earlier = NoEarlier

NextHash ==
    \/ HashAdd
    \/ HashContains
    \/ HashSize
    \/ Return

SpecHash == InitHash /\ [][NextHash]_vars

\* -------------------------------------- the same graph built in two orders
\* findShortestPaths is called on a graph; the caller keeps the map, builds
\* the same graph with the addEdge calls of one vertex made in another
\* order, and calls findShortestPaths again.

\* The list with its entries in the order f, a permutation of its places.
Reordered(list, f) == [i \in 1..Len(list) |-> list[f[i]]]

\* The graph in which vertex has the same outgoing edges, added by addEdge
\* in another order.
Rebuild ==
    /\ pc = "returned" /\ last.op = "findShortestPaths" /\ last.result = "ok"
    /\ earlier = NoEarlier
    /\ \E vertex \in DOMAIN container :
          \E f \in Permutations(1..Len(container[vertex].edges)) :
              /\ Reordered(container[vertex].edges, f) # container[vertex].edges
              /\ container' = [container EXCEPT ![vertex].edges = Reordered(@, f)]
    /\ earlier' = [kept |-> TRUE, start |-> startVertex, ret |-> last.ret]
    /\ pc' = "idle"
    /\ pre' = EmptyMap
    /\ last' = NoCall
    /\ startVertex' = 0
    /\ wden' = 1
    /\ vData' = EmptyMap
    /\ pqueue' = EmptyBag
    /\ UNCHANGED <<avlSet, hashSet, everAdded>>

InitDet ==
    /\ container \in SPGraphs(DetMaxEdges)
    /\ pre = EmptyMap
    /\ last = NoCall
    /\ pc = "idle"
    /\ startVertex = 0
    /\ wden = 1
    /\ vData = EmptyMap
    /\ pqueue = EmptyBag
    /\ avlSet = AVLSetNew(TRUE)
    /\ hashSet = HashSetNew(1)
    /\ everAdded = {}
    /\ earlier = NoEarlier

NextDet ==
    \/ SPStartInt
    \/ SPLoop
    \/ SPReturn
    \/ Rebuild

SpecDet == InitDet /\ [][NextDet]_vars

\* ------------------------------------------------ running to completion
\* findShortestPaths and isStronglyConnected on every graph on the vertices
\* 1..MaxVertex with at most MaxEdges edges, self-loops included, no pair
\* joined twice.  A member function runs synchronously on one thread: a
\* loop whose condition holds makes its next iteration, and a function whose
\* loop has ended returns.
LivePairs == VertexIds \X VertexIds

RECURSIVE LiveList(_, _, _)
LiveList(f, v, targets) ==
    IF targets = <<>> THEN <<>>
    ELSE <<DigraphEdge(v, Head(targets), f[<<v, Head(targets)>>])>>
            \o LiveList(f, v, Tail(targets))

LiveGraph(f) ==
    [v \in VertexIds |->
        DigraphVertex(0, LiveList(f, v, SortedKeys({w \in VertexIds : f[<<v, w>>] >= 0})))]

LiveGraphs(maxEdges) ==
    {LiveGraph(f) : f \in {h \in [LivePairs -> -1..MaxInfo] :
                              Cardinality({p \in LivePairs : h[p] >= 0}) <= maxEdges}}

InitLive ==
    /\ container \in LiveGraphs(MaxEdges)
    /\ pre = EmptyMap
    /\ last = NoCall
    /\ pc = "idle"
    /\ startVertex = 0
    /\ wden = 1
    /\ vData = EmptyMap
    /\ pqueue = EmptyBag
    /\ avlSet = AVLSetNew(TRUE)
    /\ hashSet = HashSetNew(1)
    /\ everAdded = {}
    /\ earlier = NoEarlier

NextLive ==
    \/ SPStart
    \/ SPLoop
    \/ SPReturn
    \/ IsStronglyConnected
    \/ Return

SpecLive ==
    InitLive /\ [][NextLive]_vars /\ WF_vars(SPLoop) /\ WF_vars(SPReturn)

\* ------------------------------------------------- reference notions
\* The notions the properties below are stated with, defined on the graph
\* alone and independently of the algorithms above.

\* u -> w is an edge of c.
HasEdge(c, u, w) ==
    /\ u \in DOMAIN c
    /\ \E i \in 1..Len(c[u].edges) : c[u].edges[i].toVertex = w

\* The vertices reached from those of S along directed edges.
RECURSIVE Closure(_, _)
Closure(c, S) ==
    LET T == S \cup {w \in DOMAIN c : \E u \in S : HasEdge(c, u, w)}
    IN IF T = S THEN S ELSE Closure(c, T)

Reachable(c, u, w) == w \in Closure(c, {u})

StronglyConnected(c) == \A u \in DOMAIN c : \A w \in DOMAIN c : Reachable(c, u, w)

\* Path weights are sums of einfo (the weight times the denominator).  W is
\* a set of pairs <<v, w>>: some path from the start to v has weight w.
\* Longer(c, W) adds the paths one edge longer, of weight at most cap.
Longer(c, W, cap) ==
    W \cup {<<c[q[1][1]].edges[q[2]].toVertex, q[1][2] + c[q[1][1]].edges[q[2]].einfo>> :
              q \in {r \in W \X (1..MaxEdgesIn(c)) :
                        /\ r[2] <= Len(c[r[1][1]].edges)
                        /\ r[1][2] + c[r[1][1]].edges[r[2]].einfo <= cap}}

RECURSIVE PathWeights(_, _, _)
PathWeights(c, W, cap) ==
    LET X == Longer(c, W, cap) IN IF X = W THEN W ELSE PathWeights(c, X, cap)

\* The least total weight of a directed path from start to each vertex that
\* has one, INT_MAX for the others.  A least-weight path repeats no vertex,
\* so its weight is at most MaxInfo for each of its edges.
MinWeight(c, start) ==
    LET W == PathWeights(c, {<<start, 0>>}, MaxInfo * Cardinality(DOMAIN c)) IN
    [v \in DOMAIN c |->
        IF \E q \in W : q[1] = v
        THEN Least({q[2] : q \in {r \in W : r[1] = v}})
        ELSE INT_MAX]

\* The graph holds no edge to a vertex it does not hold, and every edge is
\* stored in the list of its fromVertex.
NoDangling(c) ==
    \A v \in DOMAIN c : \A i \in 1..Len(c[v].edges) :
        /\ c[v].edges[i].fromVertex = v
        /\ c[v].edges[i].toVertex \in DOMAIN c

\* A findShortestPaths call has returned its map.
SPDone == pc = "returned" /\ last.op = "findShortestPaths" /\ last.result = "ok"

\* A call of op has ended (returned, thrown or crashed).
Ended(op) == pc \in {"returned", "crashed"} /\ last.op = op

\* The entries of list that do not point to vertex, in order.
Without(list, vertex) == SelectSeq(list, LAMBDA e : e.toVertex # vertex)

\* ------------------------------------------------------------- claims

\* C1: for integer weights findShortestPaths maps every vertex v reachable
\* from start, v # start, to a vertex u with an edge u -> v such that the
\* least path weight to u plus the weight of that edge is the least path
\* weight to v.
C1_PredecessorOnShortestPath ==
    (SPDone /\ wden = 1) =>
        LET dist == MinWeight(container, startVertex) IN
        \A v \in DOMAIN container :
            (v # startVertex /\ Reachable(container, startVertex, v)) =>
                LET u == last.ret[v] IN
                /\ u \in DOMAIN container
                /\ \E i \in 1..Len(container[u].edges) :
                      /\ container[u].edges[i].toVertex = v
                      /\ dist[u] + container[u].edges[i].einfo = dist[v]

\* C2: the map returned by findShortestPaths has exactly the vertices of the
\* graph as keys, and v maps to itself exactly when v is the start vertex or
\* v is not reachable from start.
C2_SelfIffStartOrUnreached ==
    SPDone =>
        /\ DOMAIN last.ret = DOMAIN container
        /\ \A v \in DOMAIN container :
              (last.ret[v] = v) <=>
                  (v = startVertex \/ ~Reachable(container, startVertex, v))

\* C2 witness: a returned map over a graph with a reached vertex other than
\* start and an unreached vertex.
C2_Witness ==
    /\ SPDone
    /\ \E v \in DOMAIN container :
          v # startVertex /\ Reachable(container, startVertex, v)
    /\ \E v \in DOMAIN container : ~Reachable(container, startVertex, v)

\* C3: isStronglyConnected returns true exactly when every vertex reaches
\* every other vertex along directed edges.
C3_StronglyConnectedIff ==
    (pc = "returned" /\ last.op = "isStronglyConnected") =>
        /\ last.result = "ok"
        /\ last.ret = StronglyConnected(container)

\* C3 witness: the answer true on the cycle 1 -> 2 -> 3 -> 1.
C3_Witness ==
    /\ pc = "returned" /\ last.op = "isStronglyConnected"
    /\ DOMAIN container = {1, 2, 3}
    /\ PairsOf(container[1].edges) = <<<<1, 2>>>>
    /\ PairsOf(container[2].edges) = <<<<2, 3>>>>
    /\ PairsOf(container[3].edges) = <<<<3, 1>>>>
    /\ last.ret = TRUE

\* C4: removeVertex(v) of a vertex in the graph returns with v gone, no edge
\* from or to v left, and every list of another vertex holding exactly its
\* former entries that do not point to v, in order and with their payloads.
C4_RemoveVertexCascade ==
    (Ended("removeVertex") /\ last.a \in DOMAIN pre) =>
        /\ pc = "returned"
        /\ last.result = "ok"
        /\ DOMAIN container = DOMAIN pre \ {last.a}
        /\ \A x \in DOMAIN container :
              /\ container[x].vinfo = pre[x].vinfo
              /\ container[x].edges = Without(pre[x].edges, last.a)

\* C5: every stored edge is in the list of its fromVertex and points to a
\* vertex of the graph, in the graph itself and in a graph constructed from it.
C5_NoDanglingEdges ==
    /\ NoDangling(container)
    /\ (pc = "returned" /\ last.op \in {"copyConstruct", "moveConstruct"}) =>
          NoDangling(last.ret)

\* C5 witness: removeVertex has returned from a graph that held an edge to
\* the removed vertex, and the graph still holds an edge.
C5_Witness ==
    /\ pc = "returned" /\ last.op = "removeVertex" /\ last.result = "ok"
    /\ \E x \in DOMAIN pre : x # last.a /\ HasEdge(pre, x, last.a)
    /\ edgeCount(container) > 0

\* C6: no two stored edges have the same (from, to) pair.
C6_NoDuplicateEdges ==
    \A v \in DOMAIN container :
        \A i \in 1..Len(container[v].edges) : \A j \in 1..Len(container[v].edges) :
            (container[v].edges[i].toVertex = container[v].edges[j].toVertex) => i = j

\* C7: addVertex of a vertex already in the graph fails with AlreadyExists
\* and leaves the graph as it was.
C7_AddVertexAlreadyExists ==
    (Ended("addVertex") /\ last.a \in DOMAIN pre) =>
        /\ last.result = "AlreadyExists"
        /\ container = pre

\* C8: addEdge of an edge already in the graph fails with AlreadyExists and
\* leaves the graph as it was.
C8_AddEdgeAlreadyExists ==
    (Ended("addEdge") /\ HasEdge(pre, last.a, last.b)) =>
        /\ last.result = "AlreadyExists"
        /\ container = pre

\* What a call names is missing from the graph it is made on: the vertex, an
\* end point, or the edge.
NamesMissing ==
    CASE last.op \in {"edgesOf", "vertexInfo", "edgeCountOf", "removeVertex",
                      "findShortestPaths"} -> last.a \notin DOMAIN pre
      [] last.op = "addEdge" -> last.a \notin DOMAIN pre \/ last.b \notin DOMAIN pre
      [] last.op \in {"edgeInfo", "removeEdge"} -> ~HasEdge(pre, last.a, last.b)
      [] OTHER -> FALSE

NamingOps ==
    {"edgesOf", "vertexInfo", "edgeCountOf", "removeVertex", "findShortestPaths",
     "addEdge", "edgeInfo", "removeEdge"}

C10_FailedMutationLeavesGraph ==
    (pc = "returned"
        /\ last.op \in {"addVertex", "addEdge", "removeVertex", "removeEdge"}
        /\ last.result \in {"NotFound", "AlreadyExists"}) =>
        container = pre

\* C10 witness: addEdge has thrown on a graph holding its fromVertex and an
\* edge, the toVertex missing.
C10_Witness ==
    /\ pc = "returned" /\ last.op = "addEdge" /\ last.result = "NotFound"
    /\ last.a \in DOMAIN pre /\ last.b \notin DOMAIN pre
    /\ edgeCount(pre) > 0

\* The places <<v, i>> of the stored edges: entry i of the list of v.
EdgePlaces(c) ==
    {q \in (DOMAIN c) \X (1..MaxEdgesIn(c)) : q[2] <= Len(c[q[1]].edges)}

\* The number of stored edges leaving or entering vertex.
IncidentEdges(c, vertex) ==
    Cardinality({q \in EdgePlaces(c) :
                    q[1] = vertex \/ c[q[1]].edges[q[2]].toVertex = vertex})

\* A call of op has returned without error.
Succeeded(op) == pc = "returned" /\ last.op = op /\ last.result = "ok"

\* C11: every addVertex that returns without error raises vertexCount() by
\* one and every such removeVertex lowers it by one; every such addEdge
\* raises edgeCount() by one, every such removeEdge lowers it by one and a
\* removeVertex lowers it by the number of edges leaving or entering the
\* vertex; so the counts are the successful adds minus the removals.
C11_CountsFollowCalls ==
    /\ Succeeded("addVertex") =>
          /\ vertexCount(container) = vertexCount(pre) + 1
          /\ edgeCount(container) = edgeCount(pre)
    /\ Succeeded("removeVertex") =>
          /\ vertexCount(container) = vertexCount(pre) - 1
          /\ edgeCount(container) = edgeCount(pre) - IncidentEdges(pre, last.a)
    /\ Succeeded("addEdge") =>
          /\ vertexCount(container) = vertexCount(pre)
          /\ edgeCount(container) = edgeCount(pre) + 1
    /\ Succeeded("removeEdge") =>
          /\ vertexCount(container) = vertexCount(pre)
          /\ edgeCount(container) = edgeCount(pre) - 1

\* C12: when addEdge(a, b, info) has returned without error, edgeInfo(a, b)
\* on the graph it leaves returns info.
C12_EdgeInfoAfterAddEdge ==
    Succeeded("addEdge") =>
        edgeInfo(container, last.a, last.b) = [result |-> "ok", ret |-> last.info]

\* C13: copy construction from the graph returns without error a graph equal
\* to it, and copy assignment from a graph d returns without error and
\* leaves the graph equal to d.
C13_CopyEqualsSource ==
    /\ (pc = "returned" /\ last.op = "copyConstruct") =>
          /\ last.result = "ok"
          /\ last.ret = container
    /\ (pc = "returned" /\ last.op = "copyAssign") =>
          /\ last.result = "ok"
          /\ container = last.info

\* C14: after move construction from the graph the new graph holds what the
\* graph held and the graph is empty; after move assignment from d the
\* graph holds what d held.
C14_MoveEmptiesSource ==
    /\ (pc = "returned" /\ last.op = "moveConstruct") =>
          /\ last.ret = pre
          /\ vertexCount(container) = 0
          /\ edgeCount(container) = 0
    /\ (pc = "returned" /\ last.op = "moveAssign") => container = last.info

\* C15: a removeEdge(from, to) that returns without error lowers edgeCount()
\* by one, leaves no edge from -> to for edgeInfo to find, and leaves the
\* vertices, their payloads and every other edge as they were.
C15_RemoveEdgeExactlyOne ==
    Succeeded("removeEdge") =>
        /\ edgeCount(container) = edgeCount(pre) - 1
        /\ edgeInfo(container, last.a, last.b).result = "NotFound"
        /\ DOMAIN container = DOMAIN pre
        /\ \A x \in DOMAIN container :
              /\ container[x].vinfo = pre[x].vinfo
              /\ x # last.a => container[x].edges = pre[x].edges
        /\ Without(container[last.a].edges, last.b) = Without(pre[last.a].edges, last.b)

\* The number of places of the sequence s that hold x.
CountIn(s, x) == Cardinality({k \in 1..Len(s) : s[k] = x})

\* The number of stored edges among the places P that are the pair x.
StoredAs(c, P, x) ==
    Cardinality({q \in P : <<c[q[1]].edges[q[2]].fromVertex,
                              c[q[1]].edges[q[2]].toVertex>> = x})

\* The pairs of vertex numbers the operations are offered.
VertexPairs == VertexIds \X VertexIds

\* C16: vertices() returns the vertices of the graph in strictly ascending
\* order; edges() returns every stored edge exactly once as its (from, to)
\* pair and has edgeCount() elements; edges(v) returns exactly the stored
\* edges whose from is v and has edgeCount(v) elements.
C16_ListingsExact ==
    /\ Succeeded("vertices") =>
          /\ {last.ret[k] : k \in 1..Len(last.ret)} = DOMAIN container
          /\ \A j \in 1..Len(last.ret) : \A k \in 1..Len(last.ret) :
                j < k => last.ret[j] < last.ret[k]
    /\ Succeeded("edges") =>
          /\ Len(last.ret) = edgeCount(container)
          /\ \A x \in VertexPairs :
                CountIn(last.ret, x) = StoredAs(container, EdgePlaces(container), x)
    /\ Succeeded("edgesOf") =>
          /\ Len(last.ret) = Len(container[last.a].edges)
          /\ \A x \in VertexPairs :
                CountIn(last.ret, x) =
                    StoredAs(container,
                             {q \in EdgePlaces(container) :
                                 container[q[1]].edges[q[2]].fromVertex = last.a}, x)

\* C16 witness: edges() has returned three pairs from a graph whose edges
\* leave two vertices, two of them being the same pair.
C16_Witness ==
    /\ Succeeded("edges")
    /\ Len(last.ret) = 3
    /\ Cardinality({last.ret[k][1] : k \in 1..Len(last.ret)}) = 2
    /\ \E x \in VertexPairs : CountIn(last.ret, x) = 2

\* The loop of findShortestPaths sets the known flag of v in this step.
Finalizes(v) ==
    /\ pc = "dijkstra"
    /\ v \in DOMAIN vData /\ v \in DOMAIN vData'
    /\ vData[v].kFlag = FALSE
    /\ vData'[v].kFlag = TRUE

\* The priority queue holds an entry for x.
InQueue(x) == \E t \in BagToSet(pqueue) : t[2] = x

\* C19: a vertex whose known flag an iteration of the loop sets has the
\* least tentative distance of the vertices not yet known that the priority
\* queue holds.
C19_FinalizesSmallest ==
    [][\A v \in DOMAIN vData :
          Finalizes(v) =>
              \A x \in DOMAIN vData :
                  (vData[x].kFlag = FALSE /\ InQueue(x)) => vData[v].d <= vData[x].d]_vars

\* C20: inside findShortestPaths the record of a vertex whose known flag is
\* set (flag, distance and predecessor) is never changed by a later step.
C20_FinalizedNeverChanged ==
    [][pc = "dijkstra" =>
          \A v \in DOMAIN vData :
              vData[v].kFlag = TRUE =>
                  (v \in DOMAIN vData' /\ vData'[v] = vData[v])]_vars

\* The elements of the nodes of tree, left subtree first (an inorder walk).
RECURSIVE Inorder(_)
Inorder(tree) ==
    IF tree = nullptr THEN <<>>
    ELSE Inorder(tree.left) \o <<tree.element>> \o Inorder(tree.right)

\* No element occurs twice in the sequence s.
NoRepeat(s) == \A j \in 1..Len(s) : \A k \in 1..Len(s) : s[j] = s[k] => j = k

\* The set of the elements of the sequence s.
Range(s) == {s[k] : k \in 1..Len(s)}

\* C17: the nodes of the AVLSet hold exactly the elements passed to add, each
\* once; lookup finds exactly these and treeSize counts them; contains() and
\* size() return accordingly; add of an element already in the set leaves
\* the tree as it was, and add of another one adds that element only.
C17_AVLSetHoldsWhatWasAdded ==
    /\ Range(Inorder(avlSet.root)) = everAdded
    /\ NoRepeat(Inorder(avlSet.root))
    /\ \A x \in Elements : lookup(x, avlSet.root) <=> x \in everAdded
    /\ treeSize(avlSet.root) = Cardinality(everAdded)
    /\ Succeeded("AVLSet::contains") => (last.ret <=> last.a \in everAdded)
    /\ Succeeded("AVLSet::size") => last.ret = Cardinality(everAdded)
    /\ Succeeded("AVLSet::add") =>
          /\ last.a \in Range(Inorder(pre.root)) => avlSet = pre
          /\ Range(Inorder(avlSet.root)) = Range(Inorder(pre.root)) \cup {last.a}

\* C17 witness: add has returned from a balancing set of at least five
\* elements whose root it has changed to an element other than the new one
\* (a single rotation at the root), the new root's old right subtree not
\* being empty.
C17_Witness ==
    /\ Succeeded("AVLSet::add")
    /\ avlSet.shouldBalance
    /\ treeSize(pre.root) >= 5
    /\ last.a \notin Range(Inorder(pre.root))
    /\ avlSet.root.element # pre.root.element
    /\ avlSet.root.element = pre.root.left.element
    /\ pre.root.left.right # nullptr

\* The HashSet holds every element in the bucket of its hash.
InOwnBucket(hs) ==
    \A i \in DOMAIN hs.arr : \A k \in 1..Len(hs.arr[i]) :
        HashOf(hs.hashFunction, hs.arr[i][k]) % hs.capacity = i

\* The number of elements the buckets of the HashSet hold.
Stored(hs) == SumOver([i \in DOMAIN hs.arr |-> Len(hs.arr[i])], DOMAIN hs.arr)

\* C18: HashSet::add doubles the capacity exactly when it has inserted a new
\* element and 5 * size > 4 * capacity then holds, and leaves the capacity
\* alone otherwise; after it the array has capacity buckets, every element
\* is in the bucket hashFunction(element) % capacity, and size() is the
\* number of elements stored, one more than before for a new element.
C18_ResizeAboveFourFifths ==
    Succeeded("HashSet::add") =>
        LET isNew == ~HashSetContains(pre, last.a) IN
        /\ hashSet.sz = pre.sz + (IF isNew THEN 1 ELSE 0)
        /\ hashSet.sz = Stored(hashSet)
        /\ DOMAIN hashSet.arr = 0..(hashSet.capacity - 1)
        /\ InOwnBucket(hashSet)
        /\ IF isNew /\ 5 * hashSet.sz > 4 * pre.capacity
           THEN hashSet.capacity = 2 * pre.capacity
           ELSE hashSet.capacity = pre.capacity

\* The weight of an edge with payload einfo is einfo / wden.  The returned
\* map gives every vertex reached from start, start apart, a predecessor u
\* with an edge u -> v that ends a path of least total weight.
PredecessorsOnLeastPaths ==
    LET dist == MinWeight(container, startVertex) IN
    \A v \in DOMAIN container :
        (v # startVertex /\ Reachable(container, startVertex, v)) =>
            LET u == last.ret[v] IN
            /\ u \in DOMAIN container
            /\ \E i \in 1..Len(container[u].edges) :
                  /\ container[u].edges[i].toVertex = v
                  /\ dist[u] + container[u].edges[i].einfo = dist[v]

\* C22: whenever a step of findShortestPaths changes the distance stored for
\* a vertex w, the new distance is the distance of its new predecessor u
\* plus the weight einfo / wden of an edge u -> w exactly (no fraction is
\* lost), and the map returned gives predecessors on paths of least weight.
C22_FractionalWeightsExact ==
    /\ [][pc = "dijkstra" =>
            \A w \in DOMAIN vData :
                (w \in DOMAIN vData' /\ vData'[w].d # vData[w].d) =>
                    LET u == vData'[w].p IN
                    \E i \in 1..Len(container[u].edges) :
                        /\ container[u].edges[i].toVertex = w
                        /\ wden * vData'[w].d =
                              wden * vData[u].d + container[u].edges[i].einfo]_vars
    /\ [](SPDone => PredecessorsOnLeastPaths)

\* C24: copy assignment of the graph to itself returns without error and
\* leaves the graph as it was.
C24_SelfAssignKeepsGraph ==
    (pc = "returned" /\ last.op = "copyAssignSelf") =>
        /\ last.result = "ok"
        /\ container = pre

\* The subtrees of tree that are not empty, tree included.
RECURSIVE Subtrees(_)
Subtrees(tree) ==
    IF tree = nullptr THEN {}
    ELSE {tree} \cup Subtrees(tree.left) \cup Subtrees(tree.right)

\* The height of tree by its shape: -1 when empty, else one more than the
\* higher of its two subtrees.
RECURSIVE ShapeHeight(_)
ShapeHeight(tree) ==
    IF tree = nullptr THEN -1
    ELSE 1 + Max(ShapeHeight(tree.left), ShapeHeight(tree.right))

\* C25: in a balancing AVLSet, at every node the elements of the left
\* subtree are smaller and those of the right subtree larger than the
\* node's element, the stored height is one more than the greater height of
\* the two children (-1 for an empty one), and the heights of the two
\* children differ by at most one.
C25_BalancedSearchTree ==
    avlSet.shouldBalance =>
        \A t \in Subtrees(avlSet.root) :
            /\ \A x \in Range(Inorder(t.left)) : x < t.element
            /\ \A x \in Range(Inorder(t.right)) : x > t.element
            /\ t.height = 1 + Max(ShapeHeight(t.left), ShapeHeight(t.right))
            /\ ShapeHeight(t.left) - ShapeHeight(t.right) \in {-1, 0, 1}

\* C25 witness: add has returned from a balancing set of at least five
\* elements after a double rotation at the root: the new root is the node
\* that was the left child of the old root's right child.
C25_Witness ==
    /\ Succeeded("AVLSet::add")
    /\ avlSet.shouldBalance
    /\ treeSize(pre.root) >= 5
    /\ last.a \notin Range(Inorder(pre.root))
    /\ pre.root.right # nullptr
    /\ pre.root.right.left # nullptr
    /\ avlSet.root.element = pre.root.right.left.element

\* The calls DFTr makes when isStronglyConnected starts it at vertex v.
CallsFrom(c, v) == DFTrCall(c, v, [marked |-> {}, calls |-> <<>>])

\* C21: a findShortestPaths call that has entered its loop always comes to
\* return its map; and the traversal isStronglyConnected starts at a vertex
\* calls DFTr at most once for any vertex, marking what DFTr marks, so that
\* it ends after at most vertexCount() calls.
C21_RunsToCompletion ==
    /\ (pc = "dijkstra") ~> SPDone
    /\ [](Succeeded("isStronglyConnected") =>
            \A v \in DOMAIN container :
                /\ NoRepeat(CallsFrom(container, v).calls)
                /\ Len(CallsFrom(container, v).calls) <= vertexCount(container)
                /\ CallsFrom(container, v).marked =
                      DFTr(container, v, container[v].edges, {}))

\* C21 witness: findShortestPaths has returned from a graph in which the
\* start vertex has a self-loop and lies on a cycle of edges of weight zero.
C21_Witness ==
    /\ SPDone
    /\ HasEdge(container, startVertex, startVertex)
    /\ \E v \in DOMAIN container :
          /\ v # startVertex
          /\ \E i \in 1..Len(container[startVertex].edges) :
                /\ container[startVertex].edges[i].toVertex = v
                /\ container[startVertex].edges[i].einfo = 0
          /\ \E i \in 1..Len(container[v].edges) :
                /\ container[v].edges[i].toVertex = startVertex
                /\ container[v].edges[i].einfo = 0

\* C23: findShortestPaths from the same start vertex on the same graph built
\* with the addEdge calls in another order returns the same map.
C23_SameMapForSameContent ==
    (SPDone /\ earlier.kept /\ earlier.start = startVertex) =>
        last.ret = earlier.ret

=============================================================================
